---- MODULE Spec2Model ----
(***************************************************************************)
(* Reconciliation and persistence of OHLCV bars.                           *)
(*                                                                         *)
(* Two reconciling programs are modelled, each on its own database:        *)
(*   - the CSV importer  (src/csv_write_to_sql_server.py), table           *)
(*     stock_data of the configured database;                              *)
(*   - the stock service (src/services/stock_data_service.py with          *)
(*     src/repositories/stock_data_repository.py), table stock_data_1d of  *)
(*     the database of each market.                                        *)
(* A third program, save_signals_to_mssql of src/signals/db.py, writes the  *)
(* table trade_signals.                                                    *)
(* One symbol is followed.  A table is the set of its rows for that symbol *)
(* (every query of the modelled code is WHERE symbol = :symbol).           *)
(*                                                                         *)
(* Prices are integers in units of 0.0001 (the DECIMAL(..,4) scale of the  *)
(* service's table), volumes are integers, dates are day numbers.  A bar   *)
(* carries open_price, close_price and volume; high_price and low_price    *)
(* are treated by every modelled line exactly like open_price.             *)
(***************************************************************************)
EXTENDS Integers, Sequences, FiniteSets, TLC

VARIABLES program, db, last, provider

vars == <<program, db, last, provider>>

(***************************************************************************)
(* Bounds of the model.                                                    *)
(***************************************************************************)
\* number of calendar positions of the importer's files and table
MaxDay == 3
\* days between two calendar positions of the importer (two positions fit in
\* the 30-day comparison window, the third lies outside)
DateStep == 16
\* number of calendar positions of the service's series
MaxSvcDay == 2
\* rows of a batch of trade signals, and of the trade_signals table at the
\* start of a run
MaxSignalRows == 2

\* the SQL NULL / pandas NaN of a numeric column (stored values are >= 0)
NULL == 0 - 1

Dates == { k * DateStep : k \in 1..MaxDay }
SvcDates == 1..MaxSvcDay

\* column values of a bar: the reference values, a close within every
\* tolerance of the reference (10.0000 / 10.0005), and a close 0.5 away
Base == [open_price |-> 100000, close_price |-> 100000, volume |-> 5]
Near == [open_price |-> 100000, close_price |-> 100005, volume |-> 5]
Changed == [open_price |-> 100000, close_price |-> 105000, volume |-> 5]

Payloads == {Base, Near, Changed}
SvcPayloads == {Base, Changed}

MkBar(d, p) ==
    [date |-> d, open_price |-> p.open_price,
     close_price |-> p.close_price, volume |-> p.volume]

Abs(x) == IF x < 0 THEN -x ELSE x
Max2(a, b) == IF a >= b THEN a ELSE b
Min2(a, b) == IF a <= b THEN a ELSE b
MinOf(S) == CHOOSE x \in S : \A y \in S : x <= y
MaxOf(S) == CHOOSE x \in S : \A y \in S : x >= y

RECURSIVE Ascending(_)
Ascending(S) ==
    IF S = {} THEN <<>>
    ELSE LET m == MinOf(S) IN <<m>> \o Ascending(S \ {m})

\* a data frame is a sequence of rows; files and provider series come in
\* ascending date order, one row per date
FrameOf(S, f) ==
    LET ds == Ascending(S) IN [i \in 1..Len(ds) |-> MkBar(ds[i], f[ds[i]])]

FramesOver(D, P) ==
    UNION { { FrameOf(S, f) : f \in [S -> P] } : S \in SUBSET D }

RowSet(df) == { df[i] : i \in 1..Len(df) }
DateSet(df) == { df[i].date : i \in 1..Len(df) }
DatesOf(tbl) == { r.date : r \in tbl }
RowAt(tbl, d) == CHOOSE r \in tbl : r.date = d

(***************************************************************************)
(* ComparisonPolicy of the importer (DataComparator).  Tolerances are in   *)
(* units of 0.0001; price_threshold is the relative factor 0.0001 itself.  *)
(***************************************************************************)
PriceColumns == {"open_price", "high_price", "low_price", "close_price"}

COMPARISON_THRESHOLDS ==
    [price_threshold |-> 1, volume_threshold |-> 0, rsi_threshold |-> 100,
     macd_threshold |-> 10, kdj_threshold |-> 100, ma_threshold |-> 1,
     bb_threshold |-> 1, atr_threshold |-> 10, cci_willr_threshold |-> 1000,
     mom_threshold |-> 10, default_threshold |-> 100]

\* DataCleaner.NUMERIC_COLUMNS, the whole list
AllNumericColumns ==
    {"open_price", "high_price", "low_price", "close_price", "volume",
     "rsi_5", "rsi_7", "rsi_10", "rsi_14", "rsi_21",
     "dif", "macd", "macd_histogram",
     "rsv", "k_value", "d_value", "j_value",
     "ma5", "ma10", "ma20", "ma60", "ema12", "ema26",
     "bb_upper", "bb_middle", "bb_lower", "atr", "cci", "willr", "mom"}

\* the columns for which column.startswith('rsi_') holds, for which
\* column.startswith('ma') or column.startswith('ema') holds ('macd' and
\* 'macd_histogram' among them), for which column.startswith('bb_') holds
RsiColumns == {"rsi_5", "rsi_7", "rsi_10", "rsi_14", "rsi_21"}
MaColumns ==
    {"ma5", "ma10", "ma20", "ma60", "macd", "macd_histogram", "ema12", "ema26"}
BbColumns == {"bb_upper", "bb_middle", "bb_lower"}

\* A lookup that tests the prefixes before the lists of names.
threshold_by_prefix_first(column) ==
    IF column \in PriceColumns THEN COMPARISON_THRESHOLDS.price_threshold
    ELSE IF column = "volume" THEN COMPARISON_THRESHOLDS.volume_threshold
    ELSE IF column \in RsiColumns THEN COMPARISON_THRESHOLDS.rsi_threshold
    ELSE IF column \in MaColumns THEN COMPARISON_THRESHOLDS.ma_threshold
    ELSE IF column \in BbColumns THEN COMPARISON_THRESHOLDS.bb_threshold
    ELSE IF column \in {"dif", "macd", "macd_histogram"}
    THEN COMPARISON_THRESHOLDS.macd_threshold
    ELSE IF column \in {"rsv", "k_value", "d_value", "j_value"}
    THEN COMPARISON_THRESHOLDS.kdj_threshold
    ELSE IF column = "atr" THEN COMPARISON_THRESHOLDS.atr_threshold
    ELSE IF column \in {"cci", "willr"}
    THEN COMPARISON_THRESHOLDS.cci_willr_threshold
    ELSE IF column = "mom" THEN COMPARISON_THRESHOLDS.mom_threshold
    ELSE COMPARISON_THRESHOLDS.default_threshold

get_comparison_threshold(column) ==
    IF column \in PriceColumns THEN COMPARISON_THRESHOLDS.price_threshold
    ELSE IF column = "volume" THEN COMPARISON_THRESHOLDS.volume_threshold
    ELSE IF column \in RsiColumns THEN COMPARISON_THRESHOLDS.rsi_threshold
    ELSE IF column \in {"dif", "macd", "macd_histogram"}
    THEN COMPARISON_THRESHOLDS.macd_threshold
    ELSE IF column \in {"rsv", "k_value", "d_value", "j_value"}
    THEN COMPARISON_THRESHOLDS.kdj_threshold
    ELSE IF column \in MaColumns THEN COMPARISON_THRESHOLDS.ma_threshold
    ELSE IF column \in BbColumns THEN COMPARISON_THRESHOLDS.bb_threshold
    ELSE IF column = "atr" THEN COMPARISON_THRESHOLDS.atr_threshold
    ELSE IF column \in {"cci", "willr"}
    THEN COMPARISON_THRESHOLDS.cci_willr_threshold
    ELSE IF column = "mom" THEN COMPARISON_THRESHOLDS.mom_threshold
    ELSE COMPARISON_THRESHOLDS.default_threshold

\* A comparison on the signed difference file_val - db_val.
compare_signed_difference(file_val, db_val, column) ==
    LET fv == IF file_val = NULL THEN 0 ELSE file_val
        dv == IF db_val = NULL THEN 0 ELSE db_val
    IN IF column \in PriceColumns
       THEN (fv - dv) * 10000 >
                Max2(Abs(dv) * COMPARISON_THRESHOLDS.price_threshold, 10 * 10000)
       ELSE fv - dv > get_comparison_threshold(column)

\* TRUE when the two values differ significantly.  For a price column the
\* threshold is max(|db_val| * 0.0001, 0.001); both sides of the comparison
\* are multiplied by 10000 to stay in the integers.
compare_values(file_val, db_val, column) ==
    LET fv == IF file_val = NULL THEN 0 ELSE file_val
        dv == IF db_val = NULL THEN 0 ELSE db_val
        diff == Abs(fv - dv)
    IN IF column \in PriceColumns
       THEN diff * 10000 >
                Max2(Abs(dv) * COMPARISON_THRESHOLDS.price_threshold, 10 * 10000)
       ELSE diff > get_comparison_threshold(column)

\* the columns of DataCleaner.NUMERIC_COLUMNS that a bar of the model carries
NUMERIC_COLUMNS == <<"open_price", "close_price", "volume">>

(***************************************************************************)
(* SeriesMetadataProbe of the importer.                                    *)
(***************************************************************************)
NoInfo == [exists |-> FALSE, record_count |-> 0,
           earliest_date |-> 0, latest_date |-> 0]

\* COUNT / MIN(date) / MAX(date) of the symbol's rows; any exception of the
\* query is swallowed and reported as "does not exist"
get_existing_data_info(tbl, query_fails) ==
    IF query_fails \/ tbl = {} THEN NoInfo
    ELSE [exists |-> TRUE, record_count |-> Cardinality(tbl),
          earliest_date |-> MinOf(DatesOf(tbl)),
          latest_date |-> MaxOf(DatesOf(tbl))]

(***************************************************************************)
(* ChangeDetectionEngine of the importer.                                  *)
(***************************************************************************)
\* the 30-day window and the 100-row cap of the bounded diff
WindowDays == 30
MaxCompareRows == 100

has_changes(row, db_row) ==
    \E i \in 1..Len(NUMERIC_COLUMNS) :
        compare_values(row[NUMERIC_COLUMNS[i]], db_row[NUMERIC_COLUMNS[i]],
                       NUMERIC_COLUMNS[i])

\* the rows of df that differ from the stored row of the same date; df itself
\* when the store holds none of its dates or when the query raises
_compare_with_database(df, tbl, query_fails) ==
    IF df = <<>> THEN <<>>
    ELSE IF query_fails THEN df
    ELSE LET db_result == { r \in tbl : r.date \in DateSet(df) }
         IN IF db_result = {} THEN df
            ELSE SelectSeq(df, LAMBDA row :
                     /\ row.date \in DatesOf(db_result)
                     /\ has_changes(row, RowAt(db_result, row.date)))

FrameMin(df) == MinOf(DateSet(df))
FrameMax(df) == MaxOf(DateSet(df))

\* rows of the file before the stored earliest / after the stored latest date
historical_data(df_clean, existing_info) ==
    SelectSeq(df_clean, LAMBDA r : r.date < existing_info.earliest_date)

future_data(df_clean, existing_info) ==
    SelectSeq(df_clean, LAMBDA r : r.date > existing_info.latest_date)

\* the file's range lies inside the stored range and the counts agree: the
\* condition under which the checksum shortcut is tried
hash_check_applies(df_clean, existing_info) ==
    /\ FrameMin(df_clean) >= existing_info.earliest_date
    /\ FrameMax(df_clean) <= existing_info.latest_date
    /\ Len(df_clean) = existing_info.record_count

\* A diff over the whole overlap of the two ranges.
overlap_without_window(df_clean, existing_info) ==
    LET overlap_start == Max2(FrameMin(df_clean), existing_info.earliest_date)
        overlap_end == Min2(FrameMax(df_clean), existing_info.latest_date)
    IN IF overlap_start <= overlap_end
       THEN SelectSeq(df_clean,
                LAMBDA r : r.date >= overlap_start /\ r.date <= overlap_end)
       ELSE <<>>

\* the rows of the file in the overlap of the two ranges, trimmed to the
\* WindowDays days that end at the overlap's end
overlap_file_data(df_clean, existing_info) ==
    LET overlap_start == Max2(FrameMin(df_clean), existing_info.earliest_date)
        overlap_end == Min2(FrameMax(df_clean), existing_info.latest_date)
        recent_date == Max2(overlap_end - WindowDays, overlap_start)
    IN IF overlap_start <= overlap_end
       THEN SelectSeq(df_clean,
                LAMBDA r : r.date >= recent_date /\ r.date <= overlap_end)
       ELSE <<>>

\* A detection that tests the ranges before it tests for missing metadata:
\* without metadata the stored latest date reads as 0 and every bar counts
\* as newer than the store.
detect_ranges_before_absence(df_clean, existing_info, tbl, hash_match, query_fails) ==
    IF df_clean = <<>>
    THEN [mode |-> "skip", data_to_process |-> <<>>]
    ELSE [mode |-> "incremental",
          data_to_process |-> historical_data(df_clean, existing_info)
                                \o future_data(df_clean, existing_info)]

\* A detection whose bounded diff answers update_changed without testing
\* whether the diff flagged any row.
detect_without_empty_test(df_clean, existing_info, tbl, hash_match, query_fails) ==
    IF ~existing_info.exists
    THEN [mode |-> "insert_all", data_to_process |-> df_clean]
    ELSE IF df_clean = <<>>
    THEN [mode |-> "raise", data_to_process |-> <<>>]
    ELSE [mode |-> "update_changed",
          data_to_process |->
              _compare_with_database(
                  overlap_file_data(df_clean, existing_info), tbl,
                  query_fails)]

\* abs(hash(...)) % 1000000 of the file's (date, close, volume) triples is
\* compared with abs(CHECKSUM_AGG(...)) % 1000000 of the store.  The two are
\* unrelated functions (Python's str hash is salted per process), so whether
\* they coincide does not follow from the data: hash_match is an input.
\*
\* The decision is [mode, data_to_process]; mode "raise" stands for the
\* TypeError of comparing NaT (min of an empty date column) with a date.
detect_data_changes_optimized(df_clean, existing_info, tbl, hash_match, query_fails) ==
    IF ~existing_info.exists
    THEN [mode |-> "insert_all", data_to_process |-> df_clean]
    ELSE IF df_clean = <<>>
    THEN [mode |-> "raise", data_to_process |-> <<>>]
    ELSE
    LET historical == historical_data(df_clean, existing_info)
        future == future_data(df_clean, existing_info)
        overlap == overlap_file_data(df_clean, existing_info)
        changed_rows == _compare_with_database(overlap, tbl, query_fails)
        skip == [mode |-> "skip", data_to_process |-> <<>>]
    IN IF hash_check_applies(df_clean, existing_info) /\ hash_match
       THEN skip
       ELSE IF historical # <<>> \/ future # <<>>
       THEN [mode |-> "incremental",
             data_to_process |-> historical \o future]
       ELSE IF /\ overlap # <<>>
               /\ Len(overlap) <= MaxCompareRows
               /\ changed_rows # <<>>
       THEN [mode |-> "update_changed", data_to_process |-> changed_rows]
       ELSE skip

(***************************************************************************)
(* UpsertGateway of the importer.  Every operator returns                  *)
(* [tbl, imported_rows, updated_rows, skipped_rows, raised].               *)
(***************************************************************************)
WriteResult(tbl, imported, updated, skipped, raised) ==
    [tbl |-> tbl, imported_rows |-> imported, updated_rows |-> updated,
     skipped_rows |-> skipped, raised |-> raised]

\* MERGE of one row on (symbol, date): UPDATE SET every column when matched,
\* INSERT when not matched
MergeRow(tbl, row) ==
    { r \in tbl : r.date # row.date } \cup {row}

\* bad is the date of the row the database rejects (a value that does not
\* fit its column), NULL when it accepts every row.
RECURSIVE MergeRows(_, _, _, _)
MergeRows(acc, df, bad, i) ==
    IF i > Len(df) THEN acc
    ELSE IF df[i].date = bad
    THEN MergeRows(WriteResult(acc.tbl, acc.imported_rows, acc.updated_rows,
                               acc.skipped_rows + 1, FALSE),
                   df, bad, i + 1)
    ELSE LET matched == df[i].date \in DatesOf(acc.tbl)
         IN MergeRows(
                WriteResult(MergeRow(acc.tbl, df[i]),
                            acc.imported_rows + (IF matched THEN 0 ELSE 1),
                            acc.updated_rows + (IF matched THEN 1 ELSE 0),
                            acc.skipped_rows, FALSE),
                df, bad, i + 1)

\* the body of _upsert_batch_by_batch(self, df): one MERGE per row, counted
\* by the action the MERGE reports; a row whose MERGE raises is counted as
\* skipped and the loop goes on; one commit after the loop
_upsert_batch_by_batch(tbl, df, bad) ==
    MergeRows(WriteResult(tbl, 0, 0, 0, FALSE), df, bad, 1)

\* A fallback that replaces the symbol's rows by the batch (what
\* _replace_all_data does) instead of merging the batch into them.
call_replace_all_data(tbl, args, bad) ==
    WriteResult(RowSet(args[1]), Len(args[1]), 0, 0, FALSE)

\* a call of self._upsert_batch_by_batch with the given positional arguments:
\* the method declares one parameter besides self, and Python raises
\* TypeError before the body runs when it is passed any other number
call_upsert_batch_by_batch(tbl, args, bad) ==
    IF Len(args) # 1 THEN WriteResult(tbl, 0, 0, 0, TRUE)
    ELSE _upsert_batch_by_batch(tbl, args[1], bad)

\* DataFrame.to_sql(if_exists='append', method='multi'): one transaction; the
\* unique constraint (symbol, date) rejects the whole insert when a key is
\* already stored or occurs twice in the frame, or when the database
\* rejects a row
to_sql_append_fails(tbl, df, bad) ==
    \/ \E i \in 1..Len(df) : df[i].date \in DatesOf(tbl)
    \/ \E i, j \in 1..Len(df) : i # j /\ df[i].date = df[j].date
    \/ \E i \in 1..Len(df) : df[i].date = bad

_incremental_update(tbl, df, symbol, bad) ==
    IF ~to_sql_append_fails(tbl, df, bad)
    THEN WriteResult(tbl \cup RowSet(df), Len(df), 0, 0, FALSE)
    ELSE call_upsert_batch_by_batch(tbl, <<df, symbol>>, bad)

_update_all_data(tbl, df, symbol, bad) ==
    call_upsert_batch_by_batch(tbl, <<df, symbol>>, bad)

\* An _execute_import that takes the branch of mode 'replace': the symbol's
\* rows are deleted and the batch inserted.
execute_import_replacing(tbl, df, symbol, mode, bad) ==
    IF df = <<>> THEN WriteResult(tbl, 0, 0, 0, FALSE)
    ELSE WriteResult(RowSet(df), Len(df), 0, 0, FALSE)

_execute_import(tbl, df, symbol, mode, bad) ==
    IF df = <<>> THEN WriteResult(tbl, 0, 0, 0, FALSE)
    ELSE IF mode \in {"incremental", "insert_all"}
    THEN _incremental_update(tbl, df, symbol, bad)
    ELSE _update_all_data(tbl, df, symbol, bad)

(***************************************************************************)
(* import_single_file in 'smart' mode, the mode main() runs.  A CSV file   *)
(* is [rows, blank]: its rows with a date, in date order, and the number   *)
(* of rows whose Date cell is empty (clean_dataframe drops them).          *)
(***************************************************************************)
\* record-count difference above which the quick check asks for processing
QuickCountSlack == 10

\* [needs_processing, has_info, existing_info].  env_skip is the outcome of
\* the file-mtime and weekday heuristics, which depend on the clock and the
\* file system, not on the data.
quick_file_check(tbl, csv, probe_fails, env_skip) ==
    LET existing_info == get_existing_data_info(tbl, probe_fails)
        file_record_count == Len(csv.rows) + csv.blank
        no_info(needs) == [needs_processing |-> needs, has_info |-> FALSE,
                           existing_info |-> NoInfo]
        with_info(needs) == [needs_processing |-> needs, has_info |-> TRUE,
                             existing_info |-> existing_info]
    IN IF ~existing_info.exists THEN no_info(TRUE)
       ELSE IF file_record_count = 0 THEN no_info(FALSE)
       \* every date is NaT: the comparison with the stored dates raises and
       \* the outer handler asks for full processing
       ELSE IF csv.rows = <<>> THEN no_info(TRUE)
       ELSE IF \/ FrameMin(csv.rows) < existing_info.earliest_date
               \/ FrameMax(csv.rows) > existing_info.latest_date
       THEN with_info(TRUE)
       ELSE IF Abs(file_record_count - existing_info.record_count)
                   > QuickCountSlack
       THEN with_info(TRUE)
       ELSE with_info(~env_skip)

\* ImportStats and what the call did, for a call that ends before detection
ImportReport(tbl, csv, mode_used, detected, exists, rows, w, skipped, success, error) ==
    [tbl |-> tbl, df |-> csv.rows, detected |-> detected, exists |-> exists,
     mode |-> mode_used, rows |-> rows,
     total_rows |-> Len(csv.rows) + csv.blank,
     imported_rows |-> w.imported_rows, updated_rows |-> w.updated_rows,
     skipped_rows |-> skipped, success |-> success, error |-> error]

NoWrite(tbl) == WriteResult(tbl, 0, 0, 0, FALSE)

import_single_file(tbl, csv, symbol, probe1_fails, probe2_fails, env_skip, hash_match, query_fails, bad) ==
    LET quick_check == quick_file_check(tbl, csv, probe1_fails, env_skip)
        df_clean == csv.rows
        total_rows == Len(csv.rows) + csv.blank
        existing_info ==
            IF quick_check.has_info THEN quick_check.existing_info
            ELSE get_existing_data_info(tbl, probe2_fails)
        change_detection ==
            detect_data_changes_optimized(df_clean, existing_info, tbl,
                                          hash_match, query_fails)
        actual_mode == change_detection.mode
        data_to_process == change_detection.data_to_process
        import_result == _execute_import(tbl, data_to_process, symbol,
                                         actual_mode, bad)
    IN IF ~quick_check.needs_processing
       THEN ImportReport(tbl, csv, "skip", FALSE, FALSE, <<>>, NoWrite(tbl),
                         total_rows, TRUE, FALSE)
       ELSE IF total_rows = 0
       THEN ImportReport(tbl, csv, "", FALSE, FALSE, <<>>, NoWrite(tbl),
                         0, FALSE, TRUE)
       ELSE IF actual_mode = "raise"
       THEN ImportReport(tbl, csv, "", FALSE, existing_info.exists, <<>>,
                         NoWrite(tbl), 0, FALSE, TRUE)
       ELSE IF actual_mode = "skip"
       THEN ImportReport(tbl, csv, "skip", TRUE, existing_info.exists, <<>>,
                         NoWrite(tbl), Len(df_clean), TRUE, FALSE)
       ELSE IF import_result.raised
       THEN ImportReport(tbl, csv, actual_mode, TRUE, existing_info.exists,
                         data_to_process, NoWrite(tbl), 0, FALSE, TRUE)
       ELSE ImportReport(import_result.tbl, csv, actual_mode, TRUE,
                existing_info.exists, data_to_process, import_result,
                import_result.skipped_rows
                  + (IF actual_mode \in {"incremental", "update_changed"}
                     THEN Len(df_clean) - Len(data_to_process) ELSE 0),
                import_result.imported_rows > 0
                  \/ import_result.updated_rows > 0,
                FALSE)

(***************************************************************************)
(* StockDataRepository: the service's store, one database per market.      *)
(***************************************************************************)
Markets == {"tw", "us"}

\* mapping.get(market_type.lower(), "market_stock_tw")
_get_database_name(market_type) ==
    IF market_type = "us" THEN "market_stock_us" ELSE "market_stock_tw"

ImporterDb == "stock_import"
\* the database save_signals_to_mssql writes its table trade_signals to
SignalsDb == "signals"
\* the database of ti.database.connection.engine
TiDb == "ti_market"
Databases ==
    {ImporterDb, SignalsDb, TiDb}
        \cup { _get_database_name(m) : m \in Markets }

\* the value of a parameter declared market_type: str = "tw" when the caller
\* does not pass it
DefaultMarket == "tw"

get_stock_data_info(dbs, market_type, query_fails) ==
    get_existing_data_info(dbs[_get_database_name(market_type)], query_fails)

\* tolerance: float = 0.001 of compare_with_external_data, in units of 0.0001
Tolerance == 10

needs_update(ext_row, db_row) ==
    \/ \E c \in {"open_price", "close_price"} :
           db_row[c] = NULL \/ Abs(ext_row[c] - db_row[c]) > Tolerance
    \/ db_row.volume = NULL
    \/ ext_row.volume # db_row.volume

\* the dates of external_data to write again: those without a stored row
\* between its first and last date, and those whose stored row differs.
\* Every date when the store holds nothing in the range; none when the query
\* raises (the exception is logged and [] returned).
compare_with_external_data(dbs, external_data, market_type, query_fails) ==
    IF external_data = <<>> THEN <<>>
    ELSE IF query_fails THEN <<>>
    ELSE LET tbl == dbs[_get_database_name(market_type)]
             db_data == { r \in tbl : /\ r.date >= FrameMin(external_data)
                                      /\ r.date <= FrameMax(external_data) }
             all_dates == [i \in 1..Len(external_data) |-> external_data[i].date]
         IN IF db_data = {} THEN all_dates
            ELSE LET outdated ==
                         SelectSeq(external_data, LAMBDA row :
                             \/ row.date \notin DatesOf(db_data)
                             \/ needs_update(row, RowAt(db_data, row.date)))
                 IN [i \in 1..Len(outdated) |-> outdated[i].date]

RECURSIVE MergeAll(_, _, _)
MergeAll(tbl, data, i) ==
    IF i > Len(data) THEN tbl ELSE MergeAll(MergeRow(tbl, data[i]), data, i + 1)

\* An upsert that commits after every row: the rows before the rejected
\* one stay written.
upsert_committing_each_row(dbs, data, market_type, bad) ==
    LET name == _get_database_name(market_type)
        ok == SelectSeq([i \in 1..Len(data) |-> i],
                        LAMBDA i : \A j \in 1..i : data[j].date # bad)
        done == [k \in 1..Len(ok) |-> data[ok[k]]]
    IN [dbs |-> [dbs EXCEPT ![name] = MergeAll(dbs[name], done, 1)],
        saved_count |-> Len(done),
        raised |-> \E i \in 1..Len(data) : data[i].date = bad]

\* one MERGE per row on one connection, one commit after the loop; a MERGE
\* that raises leaves the loop, the connection is closed without a commit
\* and the exception is raised again.  Returns [dbs, saved_count, raised].
upsert_ohlcv_data(dbs, data, market_type, bad) ==
    IF data = <<>> THEN [dbs |-> dbs, saved_count |-> 0, raised |-> FALSE]
    ELSE IF \E i \in 1..Len(data) : data[i].date = bad
    THEN [dbs |-> dbs, saved_count |-> 0, raised |-> TRUE]
    ELSE LET name == _get_database_name(market_type)
         IN [dbs |-> [dbs EXCEPT ![name] = MergeAll(dbs[name], data, 1)],
             saved_count |-> Len(data), raised |-> FALSE]

(***************************************************************************)
(* StockDataService.process_stock                                          *)
(***************************************************************************)
\* check_days of process_stock, as every caller passes it
CheckDays == 30

LastRows(df, n) ==
    IF Len(df) <= n THEN df ELSE SubSeq(df, Len(df) - n + 1, Len(df))

\* external_data.loc[dates]
Loc(df, dates) ==
    [i \in 1..Len(dates) |->
        df[CHOOSE k \in 1..Len(df) : df[k].date = dates[i]]]

\* new_data_parts: the ('historical' | 'future' | 'updated', frame) pairs
\* process_stock collects for a symbol that has stored data
new_data_parts(dbs, external_data, db_info, expand_history, compare_fails) ==
    LET historical ==
            SelectSeq(external_data, LAMBDA r : r.date < db_info.earliest_date)
        future ==
            SelectSeq(external_data, LAMBDA r : r.date > db_info.latest_date)
        outdated_dates ==
            compare_with_external_data(dbs, LastRows(external_data, CheckDays),
                                       DefaultMarket, compare_fails)
        part1 == IF expand_history /\ historical # <<>>
                 THEN << [type |-> "historical", data |-> historical] >>
                 ELSE <<>>
        part2 == IF future # <<>>
                 THEN << [type |-> "future", data |-> future] >>
                 ELSE <<>>
        part3 == IF ~expand_history /\ outdated_dates # <<>>
                 THEN << [type |-> "updated",
                          data |-> Loc(external_data, outdated_dates)] >>
                 ELSE <<>>
    IN part1 \o part2 \o part3

\* the upsert of every part in turn, up to the first that raises;
\* [dbs, total_updated, done, raised], done the number of parts written
RECURSIVE UpsertParts(_, _, _, _, _)
UpsertParts(acc, parts, market_type, bad, i) ==
    IF i > Len(parts) THEN acc
    ELSE LET u == upsert_ohlcv_data(acc.dbs, parts[i].data, market_type, bad)
         IN IF u.raised THEN [acc EXCEPT !.raised = TRUE]
            ELSE UpsertParts([dbs |-> u.dbs,
                          total_updated |-> acc.total_updated + u.saved_count,
                          done |-> i, raised |-> FALSE],
                         parts, market_type, bad, i + 1)

NoParts(dbs) == [dbs |-> dbs, total_updated |-> 0, done |-> 0, raised |-> FALSE]

RECURSIVE Flatten(_, _)
Flatten(parts, i) ==
    IF i > Len(parts) THEN <<>> ELSE parts[i].data \o Flatten(parts, i + 1)

\* A process_stock that replaces the stored series of the symbol by the
\* fetched one, so that a fetch without data empties the table.
process_stock_replacing_series(dbs, symbol, external_data, expand_history, market_type, probe_fails, compare_fails, bad) ==
    LET parts == IF external_data = <<>> THEN <<>>
                 ELSE << [type |-> "new", data |-> external_data] >>
    IN [dbs |-> [dbs EXCEPT ![_get_database_name(market_type)] =
                     RowSet(external_data)],
        exists |-> dbs[_get_database_name(market_type)] # {} /\ ~probe_fails,
        parts |-> parts, done |-> Len(parts), written |-> external_data,
        failed |-> <<>>, new_records |-> Len(external_data),
        updated_records |-> 0, total_records |-> Len(external_data),
        success |-> external_data # <<>>]

\* [dbs, exists, parts, done, written, failed, new_records,
\*  updated_records, total_records, success]: ProcessResult, the databases
\* after the call, the parts the call collected, how many of them it
\* wrote, the rows it handed to upsert_ohlcv_data, in order, and the part
\* whose upsert raised (the except clause of process_stock leaves success
\* False and the counts at 0)
process_stock(dbs, symbol, external_data, expand_history, market_type, probe_fails, compare_fails, bad) ==
    LET db_info == get_stock_data_info(dbs, market_type, probe_fails)
        parts == new_data_parts(dbs, external_data, db_info, expand_history,
                                compare_fails)
        merged == UpsertParts(NoParts(dbs), parts, market_type, bad, 1)
        saved == upsert_ohlcv_data(dbs, external_data, market_type, bad)
        final(d) == get_stock_data_info(d, DefaultMarket, FALSE).record_count
    IN IF external_data = <<>>
       THEN [dbs |-> dbs, exists |-> db_info.exists, parts |-> <<>>,
             done |-> 0, written |-> <<>>, failed |-> <<>>,
             new_records |-> 0, updated_records |-> 0, total_records |-> 0,
             success |-> FALSE]
       ELSE IF db_info.exists /\ merged.raised
       THEN [dbs |-> merged.dbs, exists |-> TRUE, parts |-> parts,
             done |-> merged.done,
             written |-> Flatten(SubSeq(parts, 1, merged.done + 1), 1),
             failed |-> parts[merged.done + 1].data, new_records |-> 0,
             updated_records |-> 0, total_records |-> 0, success |-> FALSE]
       ELSE IF db_info.exists
       THEN [dbs |-> merged.dbs, exists |-> TRUE, parts |-> parts,
             done |-> Len(parts), written |-> Flatten(parts, 1),
             failed |-> <<>>,
             new_records |-> 0, updated_records |-> merged.total_updated,
             total_records |-> final(merged.dbs), success |-> TRUE]
       ELSE IF saved.raised
       THEN [dbs |-> saved.dbs, exists |-> FALSE,
             parts |-> << [type |-> "new", data |-> external_data] >>,
             done |-> 0, written |-> external_data,
             failed |-> external_data, new_records |-> 0,
             updated_records |-> 0, total_records |-> 0, success |-> FALSE]
       ELSE [dbs |-> saved.dbs, exists |-> FALSE,
             parts |-> << [type |-> "new", data |-> external_data] >>,
             done |-> 1, written |-> external_data, failed |-> <<>>,
             new_records |-> saved.saved_count,
             updated_records |-> 0, total_records |-> final(saved.dbs),
             success |-> TRUE]

(***************************************************************************)
(* save_signals_to_mssql: the batch goes to the temporary table #staging   *)
(* and one MERGE on (symbol, datetime) moves it into trade_signals.  The   *)
(* table has an IDENTITY primary key and no unique constraint on           *)
(* (symbol, datetime); a row is [id, datetime, close_price], close_price   *)
(* standing for every non-key column of the UPDATE SET list.               *)
(***************************************************************************)
SignalDates == 1..2
SignalValues == {Base.close_price, Changed.close_price}

MaxId(tbl) == IF tbl = {} THEN 0 ELSE MaxOf({ t.id : t \in tbl })

\* the source rows that the ON clause joins with target row t
MatchingSource(df, t) == { i \in 1..Len(df) : df[i].datetime = t.datetime }

\* the inserts into #staging and the MERGE statement.  SQL Server raises
\* error 8672 when one target row is joined with more than one source row,
\* and a statement raises when the database rejects a row (bad); the
\* handler of save_signals_to_mssql rolls back and returns.
save_signals_to_mssql(tbl, df, bad) ==
    IF \/ \E t \in tbl : Cardinality(MatchingSource(df, t)) > 1
       \/ \E i \in 1..Len(df) : df[i].datetime = bad
    THEN [tbl |-> tbl, raised |-> TRUE]
    ELSE LET updated ==
                 { IF MatchingSource(df, t) = {} THEN t
                   ELSE [t EXCEPT !.close_price =
                            df[CHOOSE i \in MatchingSource(df, t) : TRUE]
                                .close_price] : t \in tbl }
             not_matched ==
                 SelectSeq([i \in 1..Len(df) |-> i],
                           LAMBDA i : \A t \in tbl :
                                          t.datetime # df[i].datetime)
             inserted ==
                 { [id |-> MaxId(tbl) + k,
                    datetime |-> df[not_matched[k]].datetime,
                    close_price |-> df[not_matched[k]].close_price] :
                     k \in 1..Len(not_matched) }
         IN [tbl |-> updated \cup inserted, raised |-> FALSE]

(***************************************************************************)
(* ti.database.repositories.StockDataRepository: save_dataframe upserts    *)
(* the rows of a frame one by one, each in its own commit.  A row has the  *)
(* shape of a bar; a column the frame leaves empty is NULL (None).         *)
(***************************************************************************)
\* upsert(session, stock_data): the stored row of the key takes the
\* attributes of stock_data that are not None; without a stored row
\* stock_data is added
upsert(tbl, stock_data) ==
    IF stock_data.date \in DatesOf(tbl)
    THEN LET existing == RowAt(tbl, stock_data.date)
             merged == [key \in DOMAIN existing |->
                           IF stock_data[key] # NULL THEN stock_data[key]
                           ELSE existing[key]]
         IN (tbl \ {existing}) \cup {merged}
    ELSE tbl \cup {stock_data}

RECURSIVE SaveRows(_, _, _)
SaveRows(tbl, df, i) ==
    IF i > Len(df) THEN tbl ELSE SaveRows(upsert(tbl, df[i]), df, i + 1)

\* [tbl, saved_count]
save_dataframe(tbl, df, symbol) ==
    [tbl |-> SaveRows(tbl, df, 1), saved_count |-> Len(df)]

(***************************************************************************)
(* KDJ of TechnicalIndicatorCalculator._calculate_kdj and of                *)
(* IndicatorCalculator._calculate_stochastic, on the arrays high, low and  *)
(* close.  A sequence index i of the model is the array index i - 1 of the *)
(* code.  The values of RSV, K, D and J are kept in units of 1 / KdjScale, *)
(* which makes every division of the bounded inputs exact.                 *)
(***************************************************************************)
\* n = 9
KdjPeriod == 9
\* the rows after the first n - 1 of a series
MaxTail == 3
KdjScale == 3 ^ MaxTail
\* np.nan
NaN == 0 - 1000000000

\* the slice a[i - n + 1: i + 1], which numpy cuts at the end of the array
Window(a, i) == { a[j] : j \in (i - KdjPeriod + 1)..Min2(i, Len(a)) }

\* np.max and np.min raise ValueError on a slice without elements
windows_raise(high, low, close) ==
    \E i \in KdjPeriod..Len(close) : Window(high, i) = {} \/ Window(low, i) = {}

\* the indices at which the RSV loop divides by period_high - period_low
rsv_divisions(high, low, close) ==
    { i \in KdjPeriod..Len(close) :
        MaxOf(Window(high, i)) # MinOf(Window(low, i)) }

\* An RSV that is not clamped to 0..100.
rsv_series_unclamped(high, low, close) ==
    [i \in 1..Len(close) |->
        IF i < KdjPeriod THEN NaN
        ELSE LET period_high == MaxOf(Window(high, i))
                 period_low == MinOf(Window(low, i))
             IN IF period_high # period_low
                THEN ((close[i] - period_low) * 100 * KdjScale)
                         \div (period_high - period_low)
                ELSE 50 * KdjScale]

\* An RSV loop that takes the lowest value for a window without range.
rsv_series_flat_as_zero(high, low, close) ==
    [i \in 1..Len(close) |->
        IF i < KdjPeriod THEN NaN
        ELSE LET period_high == MaxOf(Window(high, i))
                 period_low == MinOf(Window(low, i))
             IN IF period_high # period_low
                THEN Max2(0, Min2(100 * KdjScale,
                         ((close[i] - period_low) * 100 * KdjScale)
                             \div (period_high - period_low)))
                ELSE 0]

\* the loop 'for i in range(n - 1, len(close))' that fills rsv
rsv_series(high, low, close) ==
    [i \in 1..Len(close) |->
        IF i < KdjPeriod THEN NaN
        ELSE LET period_high == MaxOf(Window(high, i))
                 period_low == MinOf(Window(low, i))
                 rsv_value ==
                     ((close[i] - period_low) * 100 * KdjScale)
                         \div (period_high - period_low)
             IN IF period_high # period_low
                THEN Max2(0, Min2(100 * KdjScale, rsv_value))
                ELSE 50 * KdjScale]

\* k_values[i] and d_values[i] as the second loop leaves them: [k, d]
RECURSIVE kd_values(_, _)
kd_values(rsv, i) ==
    IF i < KdjPeriod THEN [k |-> NaN, d |-> NaN]
    ELSE IF i = KdjPeriod
    THEN LET k0 == IF rsv[i] # NaN THEN rsv[i] ELSE 50 * KdjScale
         IN [k |-> k0, d |-> k0]
    ELSE IF rsv[i] = NaN THEN [k |-> NaN, d |-> NaN]
    ELSE LET prev == kd_values(rsv, i - 1)
             k == (2 * prev.k + rsv[i]) \div 3
         IN [k |-> k, d |-> (2 * prev.d + k) \div 3]

\* j_values = 3 * k_values - 2 * d_values, nan where k is nan
j_values(rsv) ==
    [i \in 1..Len(rsv) |->
        IF kd_values(rsv, i).k = NaN THEN NaN
        ELSE 3 * kd_values(rsv, i).k - 2 * kd_values(rsv, i).d]

\* the returned columns; raised when the arrays are shorter than n
\* (k_values[first_valid_idx] is out of bounds)
\* the call ends in an exception and returns nothing
KdjRaised == [raised |-> TRUE, RSV |-> <<>>, K |-> <<>>, D |-> <<>>, J |-> <<>>]

\* k_values[first_valid_idx] raises IndexError on arrays shorter than n
KdjResult(rsv) ==
    IF Len(rsv) < KdjPeriod
    THEN KdjRaised
    ELSE [raised |-> FALSE, RSV |-> rsv,
          K |-> [i \in 1..Len(rsv) |-> kd_values(rsv, i).k],
          D |-> [i \in 1..Len(rsv) |-> kd_values(rsv, i).d],
          J |-> j_values(rsv)]

\* A KDJ whose J column is kept between 0 and 100.
calculate_kdj_clamping_j(high, low, close) ==
    IF windows_raise(high, low, close) THEN KdjRaised
    ELSE
    LET r == KdjResult(rsv_series(high, low, close))
    IN [r EXCEPT !.J = [i \in 1..Len(r.J) |->
                           IF r.J[i] = NaN THEN NaN
                           ELSE Max2(0, Min2(100 * KdjScale, r.J[i]))]]

_calculate_kdj(high, low, close) ==
    IF windows_raise(high, low, close) THEN KdjRaised
    ELSE KdjResult(rsv_series(high, low, close))

_calculate_stochastic(high, low, close) ==
    IF windows_raise(high, low, close) THEN KdjRaised
    ELSE KdjResult(rsv_series(high, low, close))

(***************************************************************************)
(* DataProvider of Indicators.py: get_stock_data and its cache.  A symbol  *)
(* with its exchange suffix is the pair <<symbol, suffix>>, a cache key    *)
(* the triple of such a pair, the period and the interval; the bars the    *)
(* provider returns for a listing are identified with the key of that      *)
(* listing.                                                                *)
(***************************************************************************)
\* number of calls of get_stock_data on one provider object
MaxProviderCalls == 2

\* a US ticker and a four-digit Taiwanese code
ProviderSymbols == {"AAPL", "2330"}
ProviderPeriods == {"1mo", "1y"}
ProviderInterval == "1d"

\* symbol.isdigit() and len(symbol) == 4
IsFourDigits(symbol) == symbol \in {"2330"}

_format_symbol(symbol) ==
    IF IsFourDigits(symbol) THEN <<symbol, ".TW">> ELSE <<symbol, "">>

\* f"{formatted_symbol}_{period_str}_{interval_str}"
cache_key(formatted_symbol, period, interval) ==
    <<formatted_symbol, period, interval>>

symbols_to_try(symbol) ==
    LET formatted_symbol == _format_symbol(symbol)
    IN IF formatted_symbol[2] = ".TW" /\ IsFourDigits(symbol)
       THEN <<formatted_symbol, <<symbol, ".TWO">>>>
       ELSE <<formatted_symbol>>

max_retries == 2

\* What ticker.history answers for the listings the call asks for, in the
\* order it asks: the try at which it returns bars, 0 when neither try
\* does (an empty frame or an exception).  A listing the call never asks
\* for has no answer.
HistoryAnswers(symbol, period, use_cache, cache) ==
    IF use_cache /\ cache_key(_format_symbol(symbol), period, ProviderInterval) \in cache
    THEN { <<>> }
    ELSE { <<a>> : a \in 1..max_retries }
         \cup IF Len(symbols_to_try(symbol)) = 1 THEN { <<0>> }
              ELSE { <<0, a>> : a \in 0..max_retries }

\* the calls of ticker.history made for the listings asked
RECURSIVE history_calls(_, _)
history_calls(answers, i) ==
    IF i > Len(answers) THEN 0
    ELSE (IF answers[i] = 1 THEN 1 ELSE max_retries)
         + history_calls(answers, i + 1)

\* get_stock_data: [data, cache, history_calls]; data <<>> is None
get_stock_data(cache, symbol, period, interval, use_cache, answers) ==
    LET formatted_symbol == _format_symbol(symbol)
        key == cache_key(formatted_symbol, period, interval)
        tried == symbols_to_try(symbol)
        found == { i \in 1..Len(answers) : answers[i] # 0 }
    IN IF use_cache /\ key \in cache
       THEN [data |-> key, cache |-> cache, history_calls |-> 0]
       ELSE IF found = {}
       THEN [data |-> <<>>, cache |-> cache,
             history_calls |-> history_calls(answers, 1)]
       ELSE LET success_symbol == tried[MinOf(found)]
                stored == cache_key(success_symbol, period, interval)
            IN [data |-> stored,
                cache |-> IF use_cache THEN cache \cup {stored} ELSE cache,
                history_calls |-> history_calls(answers, 1)]

(***************************************************************************)
(* StockDataService.update_technical_indicators: the indicators are        *)
(* recomputed over the stored bars, all of them or the latest ones, and    *)
(* written back row by row.  Of the indicators the KDJ columns are         *)
(* modelled.  A stored indicator cell is in units of 0.0001.               *)
(***************************************************************************)
\* the number of latest bars the service asks for (days=500 in the source)
\* and the least number of bars it computes on (60 in the source), scaled
TrailingBars == 12
MinBars == 10

\* round(float(value), 4) of a value in units of 1 / KdjScale
round4(v) == (v * 10000 + (KdjScale \div 2)) \div KdjScale

\* SELECT ... ORDER BY datetime ASC; an empty frame when the query raises
get_all_ohlcv_data(tbl, read_fails) ==
    IF read_fails THEN <<>>
    ELSE LET ds == Ascending(DatesOf(tbl))
         IN [i \in 1..Len(ds) |-> RowAt(tbl, ds[i])]

\* SELECT TOP (:days) ... ORDER BY datetime DESC, then sort_index
get_latest_ohlcv_data(tbl, days, read_fails) ==
    LET whole == get_all_ohlcv_data(tbl, read_fails)
    IN SubSeq(whole, Max2(1, Len(whole) - days + 1), Len(whole))

calculate_indicators_from_ohlcv(ohlcv_data) ==
    LET high == [i \in 1..Len(ohlcv_data) |-> ohlcv_data[i].high_price]
        low == [i \in 1..Len(ohlcv_data) |-> ohlcv_data[i].low_price]
        close == [i \in 1..Len(ohlcv_data) |-> ohlcv_data[i].close_price]
    IN _calculate_kdj(high, low, close)

\* the parameter of the UPDATE for a computed value: None for nan
indicator_param(value) == IF value = NaN THEN NULL ELSE round4(value)

\* StockDataRepository.update_technical_indicators: one UPDATE for every
\* datetime of the index, setting every indicator column
repository_update_technical_indicators(tbl, index, indicators) ==
    LET at(d) == CHOOSE i \in 1..Len(index) : index[i] = d
        updated(r) ==
            [r EXCEPT !.rsv = indicator_param(indicators.RSV[at(r.date)]),
                      !.k_value = indicator_param(indicators.K[at(r.date)]),
                      !.d_value = indicator_param(indicators.D[at(r.date)]),
                      !.j_value = indicator_param(indicators.J[at(r.date)])]
        hit == { r \in tbl : \E i \in 1..Len(index) : index[i] = r.date }
    IN [tbl |-> (tbl \ hit) \cup { updated(r) : r \in hit },
        updated_count |-> Cardinality(hit)]

\* [dbs, updated_count]
update_technical_indicators(dbs, full_history, market_type, read_fails) ==
    LET name == _get_database_name(market_type)
        ohlcv_data ==
            IF full_history THEN get_all_ohlcv_data(dbs[name], read_fails)
            ELSE get_latest_ohlcv_data(dbs[name], TrailingBars, read_fails)
        indicators == calculate_indicators_from_ohlcv(ohlcv_data)
        index == [i \in 1..Len(ohlcv_data) |-> ohlcv_data[i].date]
        w == repository_update_technical_indicators(dbs[name], index, indicators)
    IN IF ohlcv_data = <<>> \/ Len(ohlcv_data) < MinBars \/ indicators.raised
       THEN [dbs |-> dbs, updated_count |-> 0]
       ELSE [dbs |-> [dbs EXCEPT ![name] = w.tbl],
             updated_count |-> w.updated_count]

(***************************************************************************)
(* The state machine.  A behaviour is one run of one program for the       *)
(* followed symbol: main() of the importer imports each symbol's file      *)
(* once, process_multiple_stocks processes each symbol once.  The          *)
(* databases outlive the programs, so a run starts on any tables that      *)
(* satisfy the unique key (symbol, date).                                  *)
(* The comparator and the indicator calculator are pure: their run starts  *)
(* with the arguments of one call and the call is the only step.           *)
(*   program  the program the behaviour follows                            *)
(*   db       the table of every database                                  *)
(*   last     the report of the call: its inputs, the tables before it,    *)
(*            what it decided, what it wrote and what it returned          *)
(***************************************************************************)
Symbol == "2330"

\* files that give the same date twice, with different values
RepeatedDateFiles ==
    { [rows |-> << MkBar(d, Base), MkBar(d, Changed) >>, blank |-> 0] :
        d \in Dates }

\* a file of intraday rows: one more row than the bounded diff compares, all
\* of the first day
LongFiles ==
    { [rows |-> [i \in 1..(MaxCompareRows + 1) |-> MkBar(DateStep, Changed)],
       blank |-> 0] }

\* CSV files: every date-ordered file of dated rows, the file whose only
\* row has an empty Date cell, the files that repeat a date and the files
\* of intraday rows
CsvFiles ==
    { [rows |-> f, blank |-> 0] : f \in FramesOver(Dates, Payloads) \ {<<>>} }
        \cup { [rows |-> <<>>, blank |-> 1] }
        \cup RepeatedDateFiles
        \cup LongFiles

TablesOver(D, P) == { RowSet(f) : f \in FramesOver(D, P) }

\* a bar whose Close and Volume cells are empty
Blank == [open_price |-> 100000, close_price |-> NULL, volume |-> NULL]
TiPayloads == {Base, Changed, Blank}

\* the frames handed to save_dataframe, and the table at the start of a run
TiFrames == FramesOver(SvcDates, TiPayloads)
TiStores ==
    { [n \in Databases |-> IF n = TiDb THEN t ELSE {}] :
        t \in TablesOver(SvcDates, TiPayloads) }

\* what the provider returns: a date-ordered series, or nothing (<<>>)
ProviderSeries == FramesOver(SvcDates, SvcPayloads)

NoReport ==
    [op |-> "none", before |-> [n \in Databases |-> {}], df |-> <<>>,
     detected |-> FALSE, exists |-> FALSE, mode |-> "", rows |-> <<>>,
     probe_fails |-> FALSE, hash_match |-> FALSE, query_fails |-> FALSE,
     total_rows |-> 0, imported_rows |-> 0, updated_rows |-> 0,
     skipped_rows |-> 0, success |-> FALSE, error |-> FALSE,
     market |-> "", expand_history |-> FALSE, parts |-> <<>>,
     written |-> <<>>, new_records |-> 0, updated_records |-> 0,
     total_records |-> 0, bad |-> NULL, failed |-> <<>>, done |-> 0,
     file_val |-> NULL, db_val |-> NULL, column |-> "", flagged |-> FALSE,
     high |-> <<>>, low |-> <<>>, close |-> <<>>,
     divided |-> {}, threshold |-> NULL, full_history |-> FALSE,
     symbol |-> "", period |-> "", use_cache |-> FALSE, answers |-> <<>>,
     result |-> <<>>,
     kdj |-> [raised |-> FALSE, RSV |-> <<>>, K |-> <<>>, D |-> <<>>,
              J |-> <<>>]]

\* the databases at the start of a run of the importer / of the service
ImporterStores ==
    { [n \in Databases |-> IF n = ImporterDb THEN t ELSE {}] :
        t \in TablesOver(Dates, Payloads) }

ServiceStores ==
    { [n \in Databases |->
          IF n = _get_database_name("tw") THEN t[1]
          ELSE IF n = _get_database_name("us") THEN t[2] ELSE {}] :
        t \in TablesOver(SvcDates, SvcPayloads)
                \X TablesOver(SvcDates, SvcPayloads) }

\* batches of trade signals: rows in any order, dates possibly repeated
SignalBatches ==
    UNION { [1..n -> [datetime : SignalDates, close_price : SignalValues]] :
              n \in 0..MaxSignalRows }

\* trade_signals at the start of a run: ids 1..n, dates possibly repeated
SignalStores ==
    { [n \in Databases |->
          IF n = SignalsDb
          THEN { [id |-> i, datetime |-> b[i].datetime,
                  close_price |-> b[i].close_price] : i \in 1..Len(b) }
          ELSE {}] : b \in SignalBatches }

\* the values and the columns a comparison of two cells is run on: NULL,
\* values around every tolerance of the policy, one column per category
ComparedValues ==
    {NULL, 0, 1, 5, 100000, 100005, 100010, 100100, 101000, 105000, 109999,
     110010, 200000, 200015}
ComparedColumns ==
    {"close_price", "open_price", "volume", "rsi_14", "macd", "k_value",
     "ma5", "bb_upper", "atr", "cci", "mom", "pattern_score"}

\* pairs of values in a column of each kind, and every numeric column
\* with both cells empty
ComparatorInputs ==
    { [NoReport EXCEPT !.file_val = a, !.db_val = b, !.column = c] :
        a \in ComparedValues, b \in ComparedValues, c \in ComparedColumns }
    \cup { [NoReport EXCEPT !.column = c] : c \in AllNumericColumns }

NoStores == [n \in Databases |-> {}]

\* bars [high, low, close] of a price series: a close at the high, at the
\* low, a bar without range, a close above the high, a close below the low
BarShapes ==
    { [high |-> 12, low |-> 8, close |-> 12],
      [high |-> 12, low |-> 8, close |-> 8],
      [high |-> 10, low |-> 10, close |-> 10],
      [high |-> 11, low |-> 9, close |-> 13],
      [high |-> 11, low |-> 9, close |-> 7] }

\* The tables of bars with indicator columns at the start of an indicator
\* update: bars of one price but for the latest, one bar fewer than the
\* update needs, as many as it needs, as many as the trailing window holds,
\* one more; the indicator cells all empty, or as an update over the whole
\* history leaves them.
FreshIndicatorTables ==
    { { [date |-> i, rsv |-> NULL, k_value |-> NULL, d_value |-> NULL,
         j_value |-> NULL,
         high_price |-> IF i = n THEN b.high ELSE 10,
         low_price |-> IF i = n THEN b.low ELSE 10,
         close_price |-> IF i = n THEN b.close ELSE 10] : i \in 1..n } :
        n \in {MinBars - 1, MinBars, TrailingBars, TrailingBars + 1},
        b \in BarShapes }

IndicatorStores ==
    LET tw == _get_database_name("tw")
        fresh == { [n \in Databases |-> IF n = tw THEN t ELSE {}] :
                     t \in FreshIndicatorTables }
    IN fresh \cup
       { update_technical_indicators(s, TRUE, "tw", FALSE).dbs : s \in fresh }

\* the series the indicators are computed on: n - 1 equal bars and up to
\* MaxTail bars after them
PriceSeries ==
    { [i \in 1..(KdjPeriod - 1) |-> b] \o t :
        b \in BarShapes,
        t \in UNION { [1..m -> BarShapes] : m \in 0..MaxTail } }

\* The numbers of elements the caller passes of high, low and close of a
\* series of n + 1 bars: one array a bar short, one array all but empty.
CutLengths ==
    LET L == KdjPeriod + 1
    IN { [high |-> L - 1, low |-> L, close |-> L],
         [high |-> L, low |-> L - 1, close |-> L],
         [high |-> L, low |-> L, close |-> L - 1],
         [high |-> 1, low |-> L, close |-> L],
         [high |-> L, low |-> 1, close |-> L] }

\* the arrays of equal length, the empty arrays, the arrays of unequal length
IndicatorArrays ==
    { [high |-> [i \in 1..Len(ps) |-> ps[i].high],
       low |-> [i \in 1..Len(ps) |-> ps[i].low],
       close |-> [i \in 1..Len(ps) |-> ps[i].close]] : ps \in PriceSeries }
    \cup { [high |-> <<>>, low |-> <<>>, close |-> <<>>] }
    \cup { [high |-> [i \in 1..c.high |-> ps[i].high],
            low |-> [i \in 1..c.low |-> ps[i].low],
            close |-> [i \in 1..c.close |-> ps[i].close]] :
             ps \in { q \in PriceSeries : Len(q) = KdjPeriod + 1 },
             c \in CutLengths }

IndicatorInputs ==
    { [NoReport EXCEPT !.high = a.high, !.low = a.low, !.close = a.close] :
        a \in IndicatorArrays }

Init ==
    /\ program \in {"csv_importer", "stock_service", "signal_writer",
                    "ti_repository", "data_comparator",
                    "indicator_calculator", "data_provider",
                    "indicator_updater"}
    /\ provider = [_cache |-> {}, history_call_count |-> 0, calls |-> 0]
    /\ db \in CASE program = "csv_importer" -> ImporterStores
              [] program = "stock_service" -> ServiceStores
              [] program = "ti_repository" -> TiStores
              [] program = "signal_writer" -> SignalStores
              [] program = "indicator_updater" -> IndicatorStores
              [] OTHER -> {NoStores}
    /\ last \in IF program = "data_comparator" THEN ComparatorInputs
                ELSE IF program = "indicator_calculator" THEN IndicatorInputs
                ELSE {NoReport}

\* The outcomes of what import_single_file reads besides the file and the
\* table: whether each of the two metadata probes raises, the verdict of the
\* clock/mtime heuristics, whether the two checksums coincide, whether the
\* query of the bounded diff raises.  An outcome the call never consults is
\* FALSE.
ImportOutcomes(tbl, csv) ==
    LET info == get_existing_data_info(tbl, FALSE)
        dated == csv.rows # <<>>
        in_range == /\ dated
                    /\ FrameMin(csv.rows) >= info.earliest_date
                    /\ FrameMax(csv.rows) <= info.latest_date
    IN { o \in [probe1_fails : BOOLEAN, probe2_fails : BOOLEAN,
                env_skip : BOOLEAN, hash_match : BOOLEAN,
                query_fails : BOOLEAN] :
           LET exists == info.exists
                         /\ ~(o.probe1_fails /\ (o.probe2_fails \/ ~dated))
               hash_used == exists /\ dated /\ ~o.env_skip
                            /\ hash_check_applies(csv.rows, info)
           IN /\ o.probe1_fails => info.exists
              /\ o.probe2_fails => info.exists /\ (o.probe1_fails \/ ~dated)
              /\ o.env_skip => info.exists /\ ~o.probe1_fails /\ in_range
              /\ o.hash_match => hash_used
              /\ o.query_fails =>
                    /\ exists /\ in_range /\ ~o.env_skip
                    /\ ~(hash_used /\ o.hash_match) }

ImportSingleFile ==
    /\ program = "csv_importer"
    /\ last.op = "none"
    /\ \E csv \in CsvFiles :
       \E o \in ImportOutcomes(db[ImporterDb], csv) :
       \E bad \in {NULL} \cup DateSet(csv.rows) :
       \E r \in { import_single_file(db[ImporterDb], csv, Symbol,
                      o.probe1_fails, o.probe2_fails, o.env_skip,
                      o.hash_match, o.query_fails, bad) } :
            \* the database is sent the rows of an insert only
            /\ bad # NULL => /\ r.mode \in {"insert_all", "incremental"}
                              /\ bad \in DateSet(r.rows)
            /\ db' = [db EXCEPT ![ImporterDb] = r.tbl]
            /\ last' = [NoReport EXCEPT
                 !.op = "import_single_file", !.before = db,
                 !.df = r.df, !.detected = r.detected, !.exists = r.exists,
                 !.mode = r.mode, !.rows = r.rows,
                 !.probe_fails = o.probe1_fails \/ o.probe2_fails,
                 !.hash_match = o.hash_match,
                 !.query_fails = o.query_fails,
                 !.total_rows = r.total_rows,
                 !.imported_rows = r.imported_rows,
                 !.updated_rows = r.updated_rows,
                 !.skipped_rows = r.skipped_rows,
                 !.success = r.success, !.error = r.error,
                 !.bad = bad,
                 !.failed = IF bad # NULL THEN r.rows ELSE <<>>]
    /\ UNCHANGED <<program, provider>>

\* The outcomes of what process_stock reads besides the series and the
\* tables: whether the metadata probe raises, whether the query of
\* compare_with_external_data raises.
ProcessOutcomes(dbs, external_data, market_type, expand_history) ==
    LET stored == dbs[_get_database_name(market_type)] # {}
    IN { o \in [probe_fails : BOOLEAN, compare_fails : BOOLEAN] :
           /\ o.probe_fails => stored
           /\ o.compare_fails =>
                 /\ stored /\ ~o.probe_fails
                 /\ ~expand_history /\ external_data # <<>> }

ProcessStock ==
    /\ program = "stock_service"
    /\ last.op = "none"
    /\ \E external_data \in ProviderSeries :
       \E market_type \in Markets :
       \E expand_history \in BOOLEAN :
       \E o \in ProcessOutcomes(db, external_data, market_type,
                                expand_history) :
       \E bad \in {NULL} \cup DateSet(external_data) :
       \E r \in { process_stock(db, Symbol, external_data, expand_history,
                                market_type, o.probe_fails,
                                o.compare_fails, bad) } :
            \* the database rejects a row only when it is sent the row
            /\ bad # NULL => bad \in DateSet(r.failed)
            /\ db' = r.dbs
            /\ last' = [NoReport EXCEPT
                 !.op = "process_stock", !.before = db,
                 !.df = external_data, !.exists = r.exists,
                 !.market = market_type,
                 !.expand_history = expand_history,
                 !.probe_fails = o.probe_fails,
                 !.query_fails = o.compare_fails,
                 !.parts = r.parts, !.written = r.written,
                 !.new_records = r.new_records,
                 !.updated_records = r.updated_records,
                 !.total_records = r.total_records,
                 !.success = r.success, !.error = r.failed # <<>>,
                 !.bad = bad, !.failed = r.failed, !.done = r.done]
    /\ UNCHANGED <<program, provider>>

SaveSignals ==
    /\ program = "signal_writer"
    /\ last.op = "none"
    /\ \E df \in SignalBatches :
       \E bad \in {NULL} \cup { df[i].datetime : i \in 1..Len(df) } :
       \E r \in { save_signals_to_mssql(db[SignalsDb], df, bad) } :
            /\ db' = [db EXCEPT ![SignalsDb] = r.tbl]
            /\ last' = [NoReport EXCEPT
                 !.op = "save_signals_to_mssql", !.before = db,
                 !.df = df, !.error = r.raised, !.bad = bad,
                 !.failed = IF bad # NULL THEN df ELSE <<>>]
    /\ UNCHANGED <<program, provider>>

SaveDataframe ==
    /\ program = "ti_repository"
    /\ last.op = "none"
    /\ \E df \in TiFrames :
       \E r \in { save_dataframe(db[TiDb], df, Symbol) } :
            /\ db' = [db EXCEPT ![TiDb] = r.tbl]
            /\ last' = [NoReport EXCEPT
                 !.op = "save_dataframe", !.before = db, !.df = df,
                 !.written = df, !.total_records = r.saved_count,
                 !.success = TRUE]
    /\ UNCHANGED <<program, provider>>

\* DataComparator.compare_values on the two cells, as _compare_with_database
\* calls it for a column of a row of the file and of the stored row
CompareValues ==
    /\ program = "data_comparator"
    /\ last.op = "none"
    /\ last' = [last EXCEPT
                  !.op = "compare_values",
                  !.flagged = compare_values(last.file_val, last.db_val,
                                             last.column)]
    /\ UNCHANGED <<program, db, provider>>

GetComparisonThreshold ==
    /\ program = "data_comparator"
    /\ last.op = "none"
    /\ last' = [last EXCEPT
                  !.op = "get_comparison_threshold",
                  !.threshold = get_comparison_threshold(last.column)]
    /\ UNCHANGED <<program, db, provider>>

\* the test of compare_with_external_data on a fetched and a stored row
\* that differ in the one column (an OHLCV column; the fetched cell is
\* never empty)
NeedsUpdate ==
    /\ program = "data_comparator"
    /\ last.op = "none"
    /\ last.column \in {"open_price", "close_price", "volume"}
    /\ last.file_val # NULL
    /\ last' = [last EXCEPT
                  !.op = "needs_update",
                  !.flagged =
                      needs_update([Base EXCEPT ![last.column] = last.file_val],
                                   [Base EXCEPT ![last.column] = last.db_val])]
    /\ UNCHANGED <<program, db, provider>>

CalculateKdj ==
    /\ program = "indicator_calculator"
    /\ last.op = "none"
    /\ \E r \in { _calculate_kdj(last.high, last.low, last.close) } :
           last' = [last EXCEPT
               !.op = "_calculate_kdj", !.kdj = r, !.error = r.raised,
               !.divided = IF r.raised THEN {}
                           ELSE rsv_divisions(last.high, last.low, last.close)]
    /\ UNCHANGED <<program, db, provider>>

CalculateStochastic ==
    /\ program = "indicator_calculator"
    /\ last.op = "none"
    /\ \E r \in { _calculate_stochastic(last.high, last.low, last.close) } :
           last' = [last EXCEPT
               !.op = "_calculate_stochastic", !.kdj = r, !.error = r.raised,
               !.divided = IF r.raised THEN {}
                           ELSE rsv_divisions(last.high, last.low, last.close)]
    /\ UNCHANGED <<program, db, provider>>

UpdateTechnicalIndicators ==
    /\ program = "indicator_updater"
    /\ last.op = "none"
    /\ \E full_history \in BOOLEAN, market_type \in Markets,
          read_fails \in BOOLEAN :
         \E r \in { update_technical_indicators(db, full_history, market_type,
                                                read_fails) } :
            /\ db' = r.dbs
            /\ last' = [NoReport EXCEPT
                   !.op = "update_technical_indicators", !.before = db,
                   !.market = market_type, !.full_history = full_history,
                   !.probe_fails = read_fails,
                   !.updated_rows = r.updated_count]
    /\ UNCHANGED <<program, provider>>

\* One call of DataProvider.get_stock_data on the provider object, whose
\* cache outlives the call.
GetStockData ==
    /\ program = "data_provider"
    /\ provider.calls < MaxProviderCalls
    /\ \E symbol \in ProviderSymbols, period \in ProviderPeriods,
          use_cache \in BOOLEAN :
         \E answers \in HistoryAnswers(symbol, period, use_cache, provider._cache) :
         \E r \in { get_stock_data(provider._cache, symbol, period,
                                   ProviderInterval, use_cache, answers) } :
            /\ provider' = [_cache |-> r.cache,
                            history_call_count |->
                                provider.history_call_count + r.history_calls,
                            calls |-> provider.calls + 1]
            /\ last' = [NoReport EXCEPT
                   !.op = "get_stock_data", !.symbol = symbol,
                   !.period = period, !.use_cache = use_cache,
                   !.answers = answers, !.result = r.data,
                   !.success = r.data # <<>>]
    /\ UNCHANGED <<program, db>>

Next ==
    \/ GetStockData
    \/ UpdateTechnicalIndicators
    \/ ImportSingleFile
    \/ ProcessStock
    \/ SaveSignals
    \/ SaveDataframe
    \/ CompareValues
    \/ GetComparisonThreshold
    \/ NeedsUpdate
    \/ CalculateKdj
    \/ CalculateStochastic

Spec == Init /\ [][Next]_vars

(***************************************************************************)
(* What a report says about the call it describes.                         *)
(***************************************************************************)
IsImport == last.op = "import_single_file"
IsProcess == last.op = "process_stock"

\* the call reached detect_data_changes_optimized and got a decision back
Decided == IsImport /\ last.detected

\* the table the call worked on, before the call and now
StoredBefore ==
    IF IsImport THEN last.before[ImporterDb]
    ELSE last.before[_get_database_name(last.market)]

StoredNow ==
    IF IsImport THEN db[ImporterDb] ELSE db[_get_database_name(last.market)]

EarliestBefore == MinOf(DatesOf(StoredBefore))
LatestBefore == MaxOf(DatesOf(StoredBefore))

\* the bars of the fetched series before / after / inside the stored range
EarlierBars == { r \in RowSet(last.df) : r.date < EarliestBefore }
LaterBars == { r \in RowSet(last.df) : r.date > LatestBefore }
InsideBars == RowSet(last.df) \ (EarlierBars \cup LaterBars)

\* the rows the call handed to the persistence path
Persisted == IF IsImport THEN RowSet(last.rows) ELSE RowSet(last.written)

\* the stored bars are unchanged in the fetched series
StoredUnchanged == InsideBars \subseteq StoredBefore

\* no read of the store raised during the call
NoStoreFailure == ~last.probe_fails /\ ~last.query_fails

(***************************************************************************)
(* C1.  When the probe reports no metadata for the symbol, the decision is *)
(* InsertAll and its rows are every bar of the fetched series: the         *)
(* importer's detection answers insert_all with the whole cleaned file,    *)
(* the service writes the whole series as one 'new' part.                  *)
(***************************************************************************)
C1_NoMetadataInsertsAll ==
    /\ (Decided /\ ~last.exists) =>
           (last.mode = "insert_all" /\ last.rows = last.df)
    /\ (IsProcess /\ last.df # <<>> /\ ~last.exists) =>
           /\ last.parts = << [type |-> "new", data |-> last.df] >>
           /\ last.written = last.df

\* an importer call without metadata on a file of several bars, and the
\* store in fact not empty (the probe raised)
C1_Witness ==
    /\ Decided /\ ~last.exists /\ last.mode = "insert_all"
    /\ Len(last.rows) >= 2 /\ StoredBefore # {}

(***************************************************************************)
(* C2.  When metadata exists, the stored bars are unchanged and the        *)
(* series' latest date is later than the stored latest, the decision is    *)
(* Incremental and the rows persisted are exactly the bars later than the  *)
(* stored latest, plus, in expand-history mode only, the bars earlier than *)
(* the stored earliest.  The importer has no expand-history mode.          *)
(***************************************************************************)
C2_IncrementalOnlyNewer ==
    /\ (Decided /\ last.exists /\ StoredUnchanged /\ LaterBars # {}) =>
           (last.mode = "incremental" /\ Persisted = LaterBars)
    /\ (IsProcess /\ last.exists /\ StoredUnchanged /\ LaterBars # {}) =>
           Persisted = LaterBars \cup (IF last.expand_history
                                        THEN EarlierBars ELSE {})

(***************************************************************************)
(* C3.  When the fetched series and the stored series are identical (same  *)
(* dates, same values, same count) the decision is Skip with no rows and   *)
(* nothing is written.  Stated for the calls in which no read of the store *)
(* raised.                                                                 *)
(***************************************************************************)
C3_IdenticalSkips ==
    /\ (IsImport /\ last.df # <<>> /\ RowSet(last.df) = StoredBefore
            /\ NoStoreFailure) =>
           (last.mode = "skip" /\ last.rows = <<>> /\ db = last.before)
    /\ (IsProcess /\ last.df # <<>> /\ RowSet(last.df) = StoredBefore
            /\ NoStoreFailure) =>
           (last.written = <<>> /\ db = last.before)

(***************************************************************************)
(* C4.  When the series and the store cover the same dates and exactly one *)
(* bar, inside the last 30 days of the overlap, differs in a price by more *)
(* than the price threshold (every other bar being equal), the decision is *)
(* UpdateChanged and its rows are exactly that bar.  Stated for the calls  *)
(* in which no read of the store raised and the checksums did not coincide.*)
(***************************************************************************)
\* |a - b| > max(0.001, 0.0001 * |b|) on the close price, in units of 0.0001
BeyondPriceThreshold(a, b) ==
    Abs(a.close_price - b.close_price) * 10000
        > Max2(10 * 10000, Abs(b.close_price))

DifferingBars == RowSet(last.df) \ StoredBefore

OneRecentBarDiffers ==
    /\ last.df # <<>>
    /\ DateSet(last.df) = DatesOf(StoredBefore)
    /\ Cardinality(DifferingBars) = 1
    /\ \A r \in DifferingBars :
          /\ r.date >= LatestBefore - WindowDays
          /\ BeyondPriceThreshold(r, RowAt(StoredBefore, r.date))

C4_OneChangedBarUpdated ==
    /\ (Decided /\ OneRecentBarDiffers /\ NoStoreFailure
            /\ ~last.hash_match) =>
           (last.mode = "update_changed" /\ Persisted = DifferingBars)
    /\ (IsProcess /\ ~last.expand_history /\ OneRecentBarDiffers
            /\ NoStoreFailure) =>
           Persisted = DifferingBars

(***************************************************************************)
(* C5.  Every decision of the detection carries one of the four modes;     *)
(* Incremental and UpdateChanged never carry zero rows and Skip never      *)
(* carries rows; InsertAll carries every bar of the file, which is zero    *)
(* rows when the file has no dated bar.                                    *)
(***************************************************************************)
C5_RowsEmptyOnlyForSkipOrEmptyInsert ==
    Decided =>
        /\ last.mode \in {"insert_all", "incremental", "update_changed",
                          "skip"}
        /\ last.rows = <<>> <=>
               \/ last.mode = "skip"
               \/ last.mode = "insert_all" /\ last.df = <<>>

\* C5 as the specification words it: the rows are empty iff the mode is Skip
C5_RowsEmptyIffSkip ==
    Decided => (last.rows = <<>> <=> last.mode = "skip")

\* a file whose rows all lack a date, for a symbol without metadata
C5_Witness ==
    Decided /\ last.mode = "insert_all" /\ last.rows = <<>>
        /\ last.total_rows > 0

(***************************************************************************)
(* C6.  In the bounded diff, every bar of the compared window whose date   *)
(* has no row in the store is returned among the rows to persist, also     *)
(* when other bars of the window are stored.  Stated for the calls whose   *)
(* diff query did not raise.                                               *)
(***************************************************************************)
\* the importer's call reached the bounded diff: metadata exists, no bar
\* lies outside the stored range, the checksum shortcut did not answer
ReachedBoundedDiff ==
    /\ Decided /\ last.exists
    /\ EarlierBars = {} /\ LaterBars = {}
    /\ ~last.hash_match

\* the bars the bounded diff compares
ComparedWindow ==
    IF IsImport
    THEN RowSet(overlap_file_data(last.df,
                    get_existing_data_info(StoredBefore, FALSE)))
    ELSE RowSet(LastRows(last.df, CheckDays))

MissingFromStore ==
    { r \in ComparedWindow : r.date \notin DatesOf(StoredBefore) }

C6_MissingBarsFlagged ==
    /\ (ReachedBoundedDiff /\ ~last.query_fails) =>
           MissingFromStore \subseteq Persisted
    /\ (IsProcess /\ last.exists /\ ~last.expand_history
            /\ ~last.query_fails) =>
           MissingFromStore \subseteq Persisted

(***************************************************************************)
(* C7.  When the store query of the bounded diff raises, the call goes on  *)
(* as UpdateChanged with every bar of the compared window as rows to       *)
(* persist; it never ends with an empty row set.                           *)
(***************************************************************************)
C7_FailedDiffAssumesChanged ==
    /\ (ReachedBoundedDiff /\ last.query_fails) =>
           (last.mode = "update_changed" /\ Persisted = ComparedWindow)
    /\ (IsProcess /\ last.exists /\ ~last.expand_history
            /\ last.query_fails) =>
           ComparedWindow \subseteq Persisted

(***************************************************************************)
(* C8.  In an ordinary run (no expand-history request) no bar earlier than *)
(* the stored earliest date is written.  The importer has no such request: *)
(* each of its runs is an ordinary one.                                    *)
(***************************************************************************)
C8_OrdinaryRunKeepsLowerBound ==
    /\ (Decided /\ last.exists) => Persisted \cap EarlierBars = {}
    /\ (IsProcess /\ last.exists /\ ~last.expand_history) =>
           Persisted \cap EarlierBars = {}

(***************************************************************************)
(* C9.  Handing the rows of the call to the persistence path once more     *)
(* leaves the table as it is after the call: no key is added and no value  *)
(* changes.                                                                *)
(***************************************************************************)
AppliedAgain ==
    IF IsImport
    THEN [db EXCEPT ![ImporterDb] =
              _execute_import(db[ImporterDb], last.rows, Symbol,
                              last.mode, last.bad).tbl]
    ELSE IF IsProcess
    THEN UpsertParts(NoParts(db), last.parts, last.market, last.bad, 1).dbs
    ELSE IF last.op = "save_signals_to_mssql"
    THEN [db EXCEPT ![SignalsDb] =
              save_signals_to_mssql(db[SignalsDb], last.df, last.bad).tbl]
    ELSE IF last.op = "save_dataframe"
    THEN [db EXCEPT ![TiDb] = save_dataframe(db[TiDb], last.df, Symbol).tbl]
    ELSE db

BulkWriteFailed ==
    /\ Decided /\ last.mode \in {"insert_all", "incremental"}
    /\ last.rows # <<>>
    /\ to_sql_append_fails(StoredBefore, last.rows, last.bad)

C10_FallbackCoversBatch ==
    BulkWriteFailed =>
        /\ ~last.error
        /\ last.imported_rows + last.updated_rows + last.skipped_rows
               >= Len(last.rows)
        /\ Persisted \subseteq StoredNow

(***************************************************************************)
(* C11.  A batch that holds two rows with the same key is persisted        *)
(* without error and leaves exactly one row of that key in the table,      *)
(* whether or not the key was stored before.                               *)
(***************************************************************************)
IsSave == last.op = "save_signals_to_mssql"

\* the keys that occur twice in the batch handed to the persistence path
RepeatedSignalKeys ==
    { last.df[i].datetime : i \in { i \in 1..Len(last.df) :
          \E j \in 1..Len(last.df) :
              j # i /\ last.df[j].datetime = last.df[i].datetime } }

RepeatedBarKeys ==
    { last.rows[i].date : i \in { i \in 1..Len(last.rows) :
          \E j \in 1..Len(last.rows) :
              j # i /\ last.rows[j].date = last.rows[i].date } }

C11_RepeatedKeysTolerated ==
    /\ (IsSave /\ RepeatedSignalKeys # {}) =>
           /\ ~last.error
           /\ \A k \in RepeatedSignalKeys :
                  Cardinality({ t \in db[SignalsDb] : t.datetime = k }) = 1
    /\ (Decided /\ last.mode \in {"insert_all", "incremental"}
            /\ RepeatedBarKeys # {}) =>
           /\ ~last.error
           /\ \A k \in RepeatedBarKeys :
                  Cardinality({ t \in StoredNow : t.date = k }) = 1


(***************************************************************************)
(* C12.  A batch is written whole or not at all: when the database rejects *)
(* a row of a batch, the table is as it was before that batch.  For the    *)
(* service, whose call writes one batch per part, the table is the table   *)
(* before the call with the parts before the failed one applied.           *)
(***************************************************************************)
BeforeFailedBatch ==
    IF IsProcess
    THEN UpsertParts(NoParts(last.before), SubSeq(last.parts, 1, last.done),
                     last.market, NULL, 1).dbs
    ELSE last.before

BatchFailed ==
    \/ IsImport /\ BulkWriteFailed
    \/ IsProcess /\ last.failed # <<>>
    \/ IsSave /\ last.error

IsSaveDataframe == last.op = "save_dataframe"

\* the rows the call upserted and committed
Upserted ==
    IF IsImport THEN (IF last.error THEN {} ELSE RowSet(last.rows))
    ELSE IF IsProcess
    THEN RowSet(Flatten(SubSeq(last.parts, 1, last.done), 1))
    ELSE RowSet(last.df)

UpsertTarget ==
    IF IsSaveDataframe THEN TiDb
    ELSE IF IsImport THEN ImporterDb ELSE _get_database_name(last.market)

C13_UpsertSetsEveryColumn ==
    (IsImport \/ IsProcess \/ IsSaveDataframe) =>
        /\ Upserted \subseteq db[UpsertTarget]
        /\ \A t \in last.before[UpsertTarget] :
               t.date \notin DatesOf(Upserted) => t \in db[UpsertTarget]
        /\ DatesOf(db[UpsertTarget])
               = DatesOf(last.before[UpsertTarget]) \cup DatesOf(Upserted)


(***************************************************************************)
(* C14.  Whatever path import_single_file takes, the counts of its report  *)
(* add up to the rows of the file: imported_rows + updated_rows +          *)
(* skipped_rows = total_rows.                                              *)
(***************************************************************************)
C14_CountsAddUp ==
    IsImport =>
        last.imported_rows + last.updated_rows + last.skipped_rows
            = last.total_rows


(***************************************************************************)
(* C15.  When the metadata probe raises, the symbol is taken to have no    *)
(* metadata and the whole series is inserted; with some of its bars        *)
(* already stored (and no row rejected by the database) the insert         *)
(* succeeds and the table has one row per date of the series, with the     *)
(* series' values.                                                         *)
(***************************************************************************)
ProbeFailedOnStoredBars ==
    /\ (Decided \/ IsProcess) /\ last.probe_fails /\ ~last.exists
    /\ last.df # <<>> /\ last.bad = NULL
    /\ DatesOf(StoredBefore) \cap DateSet(last.df) # {}

C15_InsertAllAfterFailedProbe ==
    ProbeFailedOnStoredBars =>
        /\ IsImport => last.mode = "insert_all" /\ last.rows = last.df
        /\ IsProcess => last.parts = << [type |-> "new", data |-> last.df] >>
        /\ ~last.error
        /\ last.success
        /\ RowSet(last.df) \subseteq StoredNow
        /\ \A r \in RowSet(last.df) :
               Cardinality({ t \in StoredNow : t.date = r.date }) = 1


(***************************************************************************)
(* C16.  When the provider returns nothing for the symbol, process_stock   *)
(* writes nothing: every table is after the call as it was before it.      *)
(***************************************************************************)
ProviderGaveNothing == IsProcess /\ last.df = <<>>

C16_NoDataNoWrite ==
    ProviderGaveNothing => (db = last.before /\ last.written = <<>>)

\* the provider returned nothing for a symbol that has stored bars
C16_Witness ==
    /\ ProviderGaveNothing
    /\ StoredBefore # {}
    /\ ~last.success


(***************************************************************************)
(* C17.  No step of the importer, of the service, of the signal writer or  *)
(* of the repository removes a stored key: in every table the keys stored  *)
(* before a step are stored after it.  A run starts on any table, so the   *)
(* property of one step is the property of every sequence of calls.        *)
(***************************************************************************)
KeysOf(tbl) == { IF "date" \in DOMAIN t THEN t.date ELSE t.datetime : t \in tbl }

KeysKept == \A n \in Databases : KeysOf(db[n]) \subseteq KeysOf(db'[n])

C17_StoredKeysOnlyGrow == [][KeysKept]_vars

\* a call that rewrote a stored row and added a key
C17_Witness ==
    /\ IsProcess
    /\ \E t \in StoredBefore : t \notin StoredNow
    /\ KeysOf(StoredBefore) \subseteq KeysOf(StoredNow)
    /\ KeysOf(StoredBefore) # KeysOf(StoredNow)


(***************************************************************************)
(* C18.  compare_values gives the same answer when its two values are      *)
(* exchanged.  This holds for the volume and for every column with a       *)
(* fixed tolerance; for a price column the tolerance is taken from the     *)
(* second (stored) value alone, and the two answers agree unless the       *)
(* difference lies between the tolerances of the two values.               *)
(***************************************************************************)
IsCompare == last.op = "compare_values"

Exchanged == compare_values(last.db_val, last.file_val, last.column)

\* 10000 times the tolerance of a price column when v is the stored value
PriceTolerance(v) ==
    Max2(Abs(IF v = NULL THEN 0 ELSE v) * COMPARISON_THRESHOLDS.price_threshold, 10 * 10000)

\* 10000 times the distance of the two values compared
ComparedDistance ==
    Abs((IF last.file_val = NULL THEN 0 ELSE last.file_val)
          - (IF last.db_val = NULL THEN 0 ELSE last.db_val)) * 10000

BetweenTolerances ==
    /\ ComparedDistance > Min2(PriceTolerance(last.file_val), PriceTolerance(last.db_val))
    /\ ComparedDistance <= Max2(PriceTolerance(last.file_val), PriceTolerance(last.db_val))

C18_CompareSymmetric == IsCompare => last.flagged = Exchanged

C18_CompareSymmetricOutsideBand ==
    /\ (IsCompare /\ last.column \notin PriceColumns) =>
           last.flagged = Exchanged
    /\ (IsCompare /\ last.column \in PriceColumns) =>
           (last.flagged # Exchanged <=> BetweenTolerances)

\* two prices whose distance is between the two tolerances: flagged with
\* the smaller one stored, not flagged with the larger one stored
C18_Witness ==
    /\ IsCompare /\ last.column \in PriceColumns
    /\ last.flagged /\ ~Exchanged
    /\ last.db_val < last.file_val


(***************************************************************************)
(* C19.  A column is flagged as changed exactly when: for a price column,  *)
(* |incoming - stored| > max(0.001, 0.0001 * |stored|); for volume, the    *)
(* two values differ; for any other column, |incoming - stored| exceeds    *)
(* the fixed tolerance of the column's category.  Both the comparison of   *)
(* the importer and the comparison of the service are held to it, on       *)
(* cells that are not empty.                                               *)
(***************************************************************************)
IsNeedsUpdate == last.op = "needs_update"

PolicyFlags ==
    IF last.column \in PriceColumns
    THEN Abs(last.file_val - last.db_val) * 10000
             > Max2(10 * 10000, Abs(last.db_val))
    ELSE IF last.column = "volume" THEN last.file_val # last.db_val
    ELSE Abs(last.file_val - last.db_val)
             > get_comparison_threshold(last.column)

C19_FlaggedExactlyByPolicy ==
    ((IsCompare \/ IsNeedsUpdate)
        /\ last.file_val # NULL /\ last.db_val # NULL) =>
            last.flagged = PolicyFlags


(***************************************************************************)
(* C20.  From the first index with a full window on (index n - 1 of the    *)
(* code, n of the model) the KDJ columns follow the recurrence:            *)
(* k = d = rsv at that index; after it k[i] = (2/3) k[i-1] + (1/3) rsv[i]  *)
(* and d[i] = (2/3) d[i-1] + (1/3) k[i]; and j[i] = 3 k[i] - 2 d[i] at     *)
(* every such index, whatever its value.                                   *)
(***************************************************************************)
IsKdj == last.op \in {"_calculate_kdj", "_calculate_stochastic"} /\ ~last.error

C20_KdjFollowsRecurrence ==
    IsKdj =>
        LET rsv == last.kdj.RSV
            k == last.kdj.K
            d == last.kdj.D
            j == last.kdj.J
        IN /\ k[KdjPeriod] = rsv[KdjPeriod]
           /\ d[KdjPeriod] = rsv[KdjPeriod]
           /\ \A i \in (KdjPeriod + 1)..Len(rsv) :
                  /\ 3 * k[i] = 2 * k[i - 1] + rsv[i]
                  /\ 3 * d[i] = 2 * d[i - 1] + k[i]
           /\ \A i \in KdjPeriod..Len(rsv) : j[i] = 3 * k[i] - 2 * d[i]

\* a series on which J falls below 0 two rows after the first full window
C20_Witness ==
    /\ IsKdj
    /\ Len(last.kdj.J) >= KdjPeriod + 2
    /\ last.kdj.J[KdjPeriod + 2] < 0
    /\ last.kdj.K[KdjPeriod + 2] # last.kdj.D[KdjPeriod + 2]


(***************************************************************************)
(* C21.  With high[i] >= low[i] everywhere, RSV, K and D lie in 0..100 at  *)
(* every index from the first full window on, also where the close lies    *)
(* outside the range of its window.                                        *)
(***************************************************************************)
EqualLengths ==
    Len(last.high) = Len(last.close) /\ Len(last.low) = Len(last.close)

HighsAboveLows ==
    EqualLengths /\ \A i \in 1..Len(last.high) : last.high[i] >= last.low[i]

InPercentRange(v) == 0 <= v /\ v <= 100 * KdjScale

\* the indices whose close lies outside the range of the window
ClosesOutside ==
    { i \in KdjPeriod..Len(last.close) :
        \/ last.close[i] > MaxOf(Window(last.high, i))
        \/ last.close[i] < MinOf(Window(last.low, i)) }

C21_KdjWithinPercentRange ==
    (IsKdj /\ HighsAboveLows) =>
        \A i \in KdjPeriod..Len(last.kdj.RSV) :
            /\ InPercentRange(last.kdj.RSV[i])
            /\ InPercentRange(last.kdj.K[i])
            /\ InPercentRange(last.kdj.D[i])

\* a close above its window and a later close below its window
C21_Witness ==
    /\ IsKdj /\ HighsAboveLows
    /\ \E i, j \in ClosesOutside :
           /\ i < j
           /\ last.close[i] > MaxOf(Window(last.high, i))
           /\ last.close[j] < MinOf(Window(last.low, j))


(***************************************************************************)
(* C22.  At every index from the first full window on whose window has its *)
(* highest high equal to its lowest low, RSV is exactly 50 and the loop    *)
(* does not divide.                                                        *)
(***************************************************************************)
FlatWindows ==
    { i \in KdjPeriod..Len(last.close) :
        MaxOf(Window(last.high, i)) = MinOf(Window(last.low, i)) }

C22_FlatWindowGivesFifty ==
    (IsKdj /\ EqualLengths) =>
        \A i \in FlatWindows :
            last.kdj.RSV[i] = 50 * KdjScale /\ i \notin last.divided

\* a flat window whose close is the flat price, followed by a window with a
\* range, where the loop divides
C22_Witness ==
    /\ IsKdj /\ EqualLengths
    /\ KdjPeriod \in FlatWindows
    /\ last.divided # {}

(***************************************************************************)
(* C23.  On arrays of fewer than n = 9 elements, the empty arrays          *)
(* included, the computation does not fail and returns RSV, K, D and J of  *)
(* the length of the input with NaN in every place.                        *)
(***************************************************************************)
IsKdjCall == last.op \in {"_calculate_kdj", "_calculate_stochastic"}

AllNaN(col) ==
    Len(col) = Len(last.close) /\ \A i \in 1..Len(col) : col[i] = NaN

C23_ShortInputGivesNaN ==
    (IsKdjCall /\ EqualLengths /\ Len(last.close) < KdjPeriod) =>
        /\ ~last.error
        /\ AllNaN(last.kdj.RSV) /\ AllNaN(last.kdj.K)
        /\ AllNaN(last.kdj.D) /\ AllNaN(last.kdj.J)

(***************************************************************************)
(* C24.  On high, low and close that do not all have the same length the   *)
(* computation fails and returns no columns.                               *)
(***************************************************************************)
C24_UnequalLengthsFail ==
    (IsKdjCall /\ ~EqualLengths) =>
        last.error /\ last.kdj.RSV = <<>> /\ last.kdj.K = <<>>


(***************************************************************************)
(* C25.  With caching enabled, a call of get_stock_data that follows a     *)
(* successful call with the same symbol, period and interval is served     *)
(* from the cache: ticker.history is not called again.                     *)
(***************************************************************************)
IsProviderCall == last.op = "get_stock_data"

RepeatsSuccessfulCall ==
    /\ IsProviderCall /\ last.success /\ last.use_cache
    /\ provider'.calls = provider.calls + 1
    /\ last'.use_cache
    /\ last'.symbol = last.symbol /\ last'.period = last.period

C25_RepeatedCallUsesCache ==
    [][RepeatsSuccessfulCall =>
           provider'.history_call_count = provider.history_call_count]_vars


(***************************************************************************)
(* C26.  The lookup returns, for every numeric column, the tolerance of    *)
(* the column's own category: DIF, MACD and MACD histogram get the MACD    *)
(* tolerance and not the moving-average one; a column of no category gets  *)
(* the default tolerance.                                                  *)
(***************************************************************************)
IsThreshold == last.op = "get_comparison_threshold"

\* the table of categories: the field of COMPARISON_THRESHOLDS of a column
CategoryOf(column) ==
    CASE column \in {"open_price", "high_price", "low_price", "close_price"}
             -> "price_threshold"
      [] column = "volume" -> "volume_threshold"
      [] column \in {"rsi_5", "rsi_7", "rsi_10", "rsi_14", "rsi_21"}
             -> "rsi_threshold"
      [] column \in {"dif", "macd", "macd_histogram"} -> "macd_threshold"
      [] column \in {"rsv", "k_value", "d_value", "j_value"}
             -> "kdj_threshold"
      [] column \in {"ma5", "ma10", "ma20", "ma60", "ema12", "ema26"}
             -> "ma_threshold"
      [] column \in {"bb_upper", "bb_middle", "bb_lower"} -> "bb_threshold"
      [] column = "atr" -> "atr_threshold"
      [] column \in {"cci", "willr"} -> "cci_willr_threshold"
      [] column = "mom" -> "mom_threshold"
      [] OTHER -> "default_threshold"

C26_ThresholdOfOwnCategory ==
    IsThreshold =>
        last.threshold = COMPARISON_THRESHOLDS[CategoryOf(last.column)]

\* the lookup of 'macd', which begins with 'ma'
C26_Witness ==
    /\ IsThreshold
    /\ last.column = "macd"
    /\ last.threshold = COMPARISON_THRESHOLDS.macd_threshold
    /\ last.threshold # COMPARISON_THRESHOLDS.ma_threshold


(***************************************************************************)
(* C27.  The bounded diff of the importer compares only the bars of the    *)
(* file within the 30 days that end at the end of the overlap of the two   *)
(* ranges, and not before the overlap's start, and only when these are at  *)
(* most 100: a decision to update changed rows returns no bar outside this *)
(* window, and with more than 100 bars in the window the decision is to    *)
(* skip.                                                                   *)
(***************************************************************************)
OverlapStart == Max2(FrameMin(last.df), EarliestBefore)
OverlapEnd == Min2(FrameMax(last.df), LatestBefore)

InDiffWindow(r) ==
    /\ r.date <= OverlapEnd
    /\ r.date >= OverlapStart
    /\ r.date >= OverlapEnd - 30

DiffWindow == SelectSeq(last.df, InDiffWindow)

C27_DiffWithinWindow ==
    /\ (Decided /\ last.mode = "update_changed") =>
           /\ \A r \in RowSet(last.rows) : InDiffWindow(r)
           /\ Len(DiffWindow) <= 100
    /\ (Len(last.df) > 100 /\ ReachedBoundedDiff /\ Len(DiffWindow) > 100) =>
           last.mode = "skip"

\* an update of changed rows from a file in which a bar before the window
\* differs from the stored bar as well
C27_Witness ==
    /\ Decided /\ last.mode = "update_changed"
    /\ \E r \in RowSet(last.df) :
           /\ ~InDiffWindow(r)
           /\ r.date \in DatesOf(StoredBefore)
           /\ compare_values(r.close_price,
                             RowAt(StoredBefore, r.date).close_price,
                             "close_price")


(***************************************************************************)
(* C28.  An indicator update over the trailing window (full_history false) *)
(* never replaces a stored indicator value by NULL: every bar that held a  *)
(* value of an indicator before the call holds one afterwards.             *)
(***************************************************************************)
IsIndicatorUpdate == last.op = "update_technical_indicators"

IndicatorFields == {"rsv", "k_value", "d_value", "j_value"}

C28_TrailingUpdateKeepsValues ==
    (IsIndicatorUpdate /\ ~last.full_history) =>
        \A r \in StoredBefore : \A f \in IndicatorFields :
            r[f] # NULL => RowAt(StoredNow, r.date)[f] # NULL


(***************************************************************************)
(* C29.  For every market passed to process_stock, the reads and writes of *)
(* the call target the database of that market: the tables of the other    *)
(* databases are left alone, and the record count the result reports is    *)
(* the count of the market's own table after the call.                     *)
(***************************************************************************)
OtherDatabases == Databases \ {_get_database_name(last.market)}

C29_StoreAccessOfOwnMarket ==
    (IsProcess /\ last.success) =>
        /\ \A n \in OtherDatabases : db[n] = last.before[n]
        /\ last.total_records = Cardinality(StoredNow)


(***************************************************************************)
(* C30.  Within one call of process_stock on a stored symbol every fetched *)
(* bar is written at most once, and updated_records is the number of       *)
(* distinct bars written: a bar later than the stored latest is not        *)
(* written as new and again as changed.                                    *)
(***************************************************************************)
WrittenOnce == Len(last.written) = Cardinality(DateSet(last.written))

C30_EachBarWrittenOnce ==
    (IsProcess /\ last.success /\ last.exists) =>
        /\ WrittenOnce
        /\ last.updated_records = Cardinality(DateSet(last.written))

====
